---- MODULE Spec2Model ----
(***************************************************************************)
(* The /api/claude relay of src/server.py (proxy_claude) as a state        *)
(* machine.  Several inbound requests are handled concurrently; each       *)
(* handler invocation runs lines 22-59 on its body up to the blocking      *)
(* requests.post (one step: it touches nothing but its own locals), waits  *)
(* for the upstream's answer or a transport failure, then runs lines       *)
(* 59-64.  An outbound call is an invocation of requests.post.             *)
(*                                                                         *)
(* JSON values are tagged records: Null, Str(s), Num(n), Arr(a), Obj(f),   *)
(* with f a function from key strings to JSON values (a Python dict).      *)
(* A body on the wire is a text: a record naming who formatted it and the  *)
(* value it encodes, or text that is no JSON at all.                       *)
(***************************************************************************)
EXTENDS Integers, Sequences, FiniteSets, TLC

\* Number of inbound requests in a behaviour (they may overlap in time).
NumRequests == 2

Requests == 1..NumRequests

VARIABLES
    pc,         \* pc[r]: "idle", "blocked", "resumed", "done"
    inbound,    \* inbound[r]: the raw body of request r
    outbound,   \* outbound[r]: the requests.post calls made while handling r
    upstream,   \* upstream[r]: how the outbound call of r ended
    responses   \* responses[r]: what the relay returned to r's caller

vars == <<pc, inbound, outbound, upstream, responses>>

-----------------------------------------------------------------------------
(* JSON values and wire texts *)

None == [t |-> "none"]
Null == [t |-> "null"]
Str(s) == [t |-> "str", v |-> s]
Num(n) == [t |-> "num", n |-> n]
Arr(a) == [t |-> "arr", a |-> a]
Obj(f) == [t |-> "obj", f |-> f]
EmptyObj == Obj(<<>>)

\* A wire text that encodes the JSON value v as `by` formatted it.
Text(by, v) == [fmt |-> by, val |-> v]
\* A wire text that is not JSON.
NotJson(s) == [fmt |-> "not-json", raw |-> s]

Ok(v) == [ok |-> TRUE, val |-> v]
Raise(type, msg) == [ok |-> FALSE, type |-> type, msg |-> msg]

-----------------------------------------------------------------------------
(* Program constants *)

ANTHROPIC_URL == "https://api.anthropic.com/v1/messages"
ANTHROPIC_VERSION == "2023-06-01"
MODEL == "claude-sonnet-4-5-20250929"
MAX_TOKENS == 1024
BAD_REQUEST == 400
INTERNAL_ERROR == 500
MISSING_MSG == "Missing api_key or image_data"
INSTRUCTION == "This is a handwritten grocery list. Please extract all the grocery items from this image and return them as a JSON array of strings. Each item should be a separate string in the array. Only include the item names, remove any bullets, quantities (like \"2x\"), or store names. Return ONLY the JSON array, nothing else. Example format: [\"milk\", \"eggs\", \"bread\"]"

-----------------------------------------------------------------------------
(* Inputs: inbound bodies and upstream outcomes *)

ApiKeys == {Null, Str(""), Str("sk-test"), Str("sk-other")}

Png == Obj([mediaType |-> Str("image/png"), base64 |-> Str("AAAA")])
\* Both keys present, values of the wrong type.
OddValues == Obj([mediaType |-> Null, base64 |-> Num(7)])
NoMediaType == Obj([base64 |-> Str("AAAA")])
NoBase64 == Obj([mediaType |-> Str("image/png")])

Images == {Null, EmptyObj, Png, OddValues, NoMediaType, NoBase64, Str("abc")}

\* JSON objects with any subset of the two top-level fields.
ObjectBodies ==
    {Obj([api_key |-> k, image_data |-> i]) : k \in ApiKeys, i \in Images}
    \cup {Obj([api_key |-> k]) : k \in ApiKeys}
    \cup {Obj([image_data |-> i]) : i \in Images}
    \cup {EmptyObj}

NonObjectBodies == {Null, Arr(<<>>), Str("hello"), Num(7)}

InboundBodies ==
    {NotJson("{api_key:")}
    \cup {Text("client", v) : v \in NonObjectBodies \cup ObjectBodies}

OkDoc == Obj([content |-> Arr(<<Obj([type |-> Str("text"), text |-> Str("[\"milk\"]")])>>)])
ErrDoc == Obj([type |-> Str("error"),
               error |-> Obj([type |-> Str("authentication_error"),
                              message |-> Str("invalid x-api-key")])])

UpstreamResponses ==
    { [status |-> 200, text |-> Text("upstream", OkDoc)],
      [status |-> 401, text |-> Text("upstream", ErrDoc)],
      [status |-> 502, text |-> NotJson("<html>502 Bad Gateway</html>")] }

\* requests.post raising: whatever the failure (connection refused, timeout),
\* the handler sees an exception with a message.
TransportFailures == { Raise("ConnectionError", "Connection refused") }

-----------------------------------------------------------------------------
(* The pieces of proxy_claude *)

\* json.loads as used by request.get_json() and response.json().
JsonLoads(text) ==
    IF text.fmt = "not-json"
    THEN Raise("JSONDecodeError", "Expecting value: line 1 column 1 (char 0)")
    ELSE Ok(text.val)

\* Mutant of GetJson: request.get_json(silent=True) or {}.
GetJsonSilent(text) ==
    IF JsonLoads(text).ok /\ JsonLoads(text).val.t # "null"
    THEN JsonLoads(text)
    ELSE Ok(EmptyObj)

\* request.get_json(): a body that does not parse raises werkzeug's BadRequest.
GetJson(text) ==
    IF JsonLoads(text).ok
    THEN JsonLoads(text)
    ELSE Raise("BadRequest", "400 Bad Request: The browser (or proxy) sent a request that this server could not understand.")

\* flask.jsonify: the value, formatted by flask.
Jsonify(v) == Text("flask", v)

\* data.get(key): only a dict has .get; a missing key gives None.
DictGet(d, key) ==
    CASE d.t = "obj" -> Ok(IF key \in DOMAIN d.f THEN d.f[key] ELSE Null)
      [] d.t = "null" -> Raise("AttributeError", "'NoneType' object has no attribute 'get'")
      [] d.t = "arr" -> Raise("AttributeError", "'list' object has no attribute 'get'")
      [] d.t = "str" -> Raise("AttributeError", "'str' object has no attribute 'get'")
      [] d.t = "num" -> Raise("AttributeError", "'int' object has no attribute 'get'")

\* Mutant of Truthy: the test `x is None` in place of `not x`.
TruthyIsNotNone(v) == v.t # "null"

\* Python truth value, as tested by `not x`.
Truthy(v) ==
    CASE v.t = "null" -> FALSE
      [] v.t = "str" -> v.v # ""
      [] v.t = "num" -> v.n # 0
      [] v.t = "arr" -> v.a # <<>>
      [] v.t = "obj" -> DOMAIN v.f # {}

\* Mutant of Subscript: image_data.get(key) in place of image_data[key].
SubscriptGet(d, key) ==
    IF d.t = "obj"
    THEN Ok(IF key \in DOMAIN d.f THEN d.f[key] ELSE Null)
    ELSE Raise("AttributeError", "object has no attribute 'get'")

\* image_data[key] for a truthy image_data.
Subscript(d, key) ==
    CASE d.t = "obj" ->
            IF key \in DOMAIN d.f THEN Ok(d.f[key])
            ELSE Raise("KeyError", IF key = "mediaType" THEN "'mediaType'" ELSE "'base64'")
      [] d.t = "str" -> Raise("TypeError", "string indices must be integers")
      [] d.t = "num" -> Raise("TypeError", "'int' object is not subscriptable")
      [] d.t = "arr" -> Raise("TypeError", "list indices must be integers or slices, not str")

\* Mutant of OutboundRequest: media_type and data filled from the wrong fields.
OutboundRequestSwapped(api_key, media_type, data) ==
    [ url |-> ANTHROPIC_URL,
      headers |-> ("Content-Type" :> "application/json"
                   @@ "x-api-key" :> api_key
                   @@ "anthropic-version" :> ANTHROPIC_VERSION),
      json |-> [model |-> MODEL,
                max_tokens |-> MAX_TOKENS,
                messages |-> <<
                    [role |-> "user",
                     content |-> <<
                        [type |-> "image",
                         source |-> [type |-> "base64",
                                     media_type |-> data,
                                     data |-> media_type]],
                        [type |-> "text", text |-> INSTRUCTION] >>] >>] ]

\* The arguments of requests.post.
OutboundRequest(api_key, media_type, data) ==
    [ url |-> ANTHROPIC_URL,
      headers |-> ("Content-Type" :> "application/json"
                   @@ "x-api-key" :> api_key
                   @@ "anthropic-version" :> ANTHROPIC_VERSION),
      json |-> [model |-> MODEL,
                max_tokens |-> MAX_TOKENS,
                messages |-> <<
                    [role |-> "user",
                     content |-> <<
                        [type |-> "image",
                         source |-> [type |-> "base64",
                                     media_type |-> media_type,
                                     data |-> data]],
                        [type |-> "text", text |-> INSTRUCTION] >>] >>] ]

Response(status, v) == [status |-> status, body |-> Jsonify(v)]

\* Mutant of ExceptResponse: the exception's message is replaced by a fixed one.
ExceptResponseGeneric(e) ==
    Response(INTERNAL_ERROR, Obj([error |-> Str("Internal Server Error")]))

\* The except clause: jsonify({'error': str(e)}), 500.
ExceptResponse(e) == Response(INTERNAL_ERROR, Obj([error |-> Str(e.msg)]))

ValidationResponse == Response(BAD_REQUEST, Obj([error |-> Str(MISSING_MSG)]))

\* Lines 22-59 up to the call of requests.post: either the handler returns
\* (act = "return") or it calls requests.post (act = "post").
BeforePost(body) ==
    LET data == GetJson(body) IN
    IF ~data.ok THEN [act |-> "return", response |-> ExceptResponse(data)]
    ELSE
    LET api_key == DictGet(data.val, "api_key")
        image_data == DictGet(data.val, "image_data") IN
    IF ~api_key.ok THEN [act |-> "return", response |-> ExceptResponse(api_key)]
    ELSE IF ~Truthy(api_key.val) \/ ~Truthy(image_data.val)
    THEN [act |-> "return", response |-> ValidationResponse]
    ELSE
    LET media_type == Subscript(image_data.val, "mediaType") IN
    IF ~media_type.ok THEN [act |-> "return", response |-> ExceptResponse(media_type)]
    ELSE
    LET data64 == Subscript(image_data.val, "base64") IN
    IF ~data64.ok THEN [act |-> "return", response |-> ExceptResponse(data64)]
    ELSE [act |-> "post",
          request |-> OutboundRequest(api_key.val, media_type.val, data64.val)]

\* Mutant of AfterPost: response.raise_for_status() before response.json().
AfterPostRaiseForStatus(outcome) ==
    IF ~outcome.ok THEN ExceptResponse(outcome)
    ELSE IF outcome.val.status >= 400
    THEN ExceptResponse(Raise("HTTPError", "Client or Server Error"))
    ELSE
    LET decoded == JsonLoads(outcome.val.text) IN
    IF ~decoded.ok THEN ExceptResponse(decoded)
    ELSE Response(outcome.val.status, decoded.val)

\* Lines 59-64 once requests.post has returned a response or raised.
AfterPost(outcome) ==
    IF ~outcome.ok THEN ExceptResponse(outcome)
    ELSE
    LET decoded == JsonLoads(outcome.val.text) IN
    IF ~decoded.ok THEN ExceptResponse(decoded)
    ELSE Response(outcome.val.status, decoded.val)

-----------------------------------------------------------------------------
(* Actions *)

Init ==
    /\ pc = [r \in Requests |-> "idle"]
    /\ inbound = [r \in Requests |-> None]
    /\ outbound = [r \in Requests |-> <<>>]
    /\ upstream = [r \in Requests |-> None]
    /\ responses = [r \in Requests |-> <<>>]

\* Mutant of Handle: a result cache keyed by the inbound body.
HandleCached(r) ==
    /\ pc[r] = "idle"
    /\ \E body \in InboundBodies :
        /\ inbound' = [inbound EXCEPT ![r] = body]
        /\ LET step == BeforePost(body)
               hits == {q \in Requests : pc[q] = "done" /\ inbound[q] = body} IN
           IF step.act = "return" \/ hits # {}
           THEN /\ responses' = [responses EXCEPT ![r] =
                        Append(@, IF step.act = "return" THEN step.response
                                  ELSE responses[CHOOSE q \in hits : TRUE][1])]
                /\ pc' = [pc EXCEPT ![r] = "done"]
                /\ UNCHANGED outbound
           ELSE /\ outbound' = [outbound EXCEPT ![r] = Append(@, step.request)]
                /\ pc' = [pc EXCEPT ![r] = "blocked"]
                /\ UNCHANGED responses
    /\ UNCHANGED upstream

\* Mutant of Handle: the parsed body is kept in a module-level variable, so a
\* handler may work on the body another request left there.
HandleSharedData(r) ==
    /\ pc[r] = "idle"
    /\ \E body \in InboundBodies :
        /\ inbound' = [inbound EXCEPT ![r] = body]
        /\ \E data \in {body} \cup {inbound[q] : q \in {q \in Requests : inbound[q] # None}} :
           LET step == BeforePost(data) IN
           IF step.act = "return"
           THEN /\ responses' = [responses EXCEPT ![r] = Append(@, step.response)]
                /\ pc' = [pc EXCEPT ![r] = "done"]
                /\ UNCHANGED outbound
           ELSE /\ outbound' = [outbound EXCEPT ![r] = Append(@, step.request)]
                /\ pc' = [pc EXCEPT ![r] = "blocked"]
                /\ UNCHANGED responses
    /\ UNCHANGED upstream

\* Mutant of Handle: the handler answers 202 as soon as it has issued the
\* outbound call, and the upstream's answer is dealt with afterwards.
HandleRespondEarly(r) ==
    /\ pc[r] = "idle"
    /\ \E body \in InboundBodies :
        /\ inbound' = [inbound EXCEPT ![r] = body]
        /\ LET step == BeforePost(body) IN
           IF step.act = "return"
           THEN /\ responses' = [responses EXCEPT ![r] = Append(@, step.response)]
                /\ pc' = [pc EXCEPT ![r] = "done"]
                /\ UNCHANGED outbound
           ELSE /\ outbound' = [outbound EXCEPT ![r] = Append(@, step.request)]
                /\ responses' = [responses EXCEPT ![r] = Append(@, Response(202, Null))]
                /\ pc' = [pc EXCEPT ![r] = "blocked"]
    /\ UNCHANGED upstream

\* A client posts a body to /api/claude and the handler runs on it, up to
\* its return or to the call of requests.post, where it blocks.
Handle(r) ==
    /\ pc[r] = "idle"
    /\ \E body \in InboundBodies :
        /\ inbound' = [inbound EXCEPT ![r] = body]
        /\ LET step == BeforePost(body) IN
           IF step.act = "return"
           THEN /\ responses' = [responses EXCEPT ![r] = Append(@, step.response)]
                /\ pc' = [pc EXCEPT ![r] = "done"]
                /\ UNCHANGED outbound
           ELSE /\ outbound' = [outbound EXCEPT ![r] = Append(@, step.request)]
                /\ pc' = [pc EXCEPT ![r] = "blocked"]
                /\ UNCHANGED responses
    /\ UNCHANGED upstream

\* The upstream answers the outbound call of r.
UpstreamResponds(r) ==
    /\ pc[r] = "blocked"
    /\ \E resp \in UpstreamResponses : upstream' = [upstream EXCEPT ![r] = Ok(resp)]
    /\ pc' = [pc EXCEPT ![r] = "resumed"]
    /\ UNCHANGED <<inbound, outbound, responses>>

\* The outbound call of r fails in the transport: requests.post raises.
TransportFails(r) ==
    /\ pc[r] = "blocked"
    /\ \E e \in TransportFailures : upstream' = [upstream EXCEPT ![r] = e]
    /\ pc' = [pc EXCEPT ![r] = "resumed"]
    /\ UNCHANGED <<inbound, outbound, responses>>

\* Mutant of Resume: one retry of the outbound call after a transport failure.
ResumeRetry(r) ==
    /\ pc[r] = "resumed"
    /\ IF ~upstream[r].ok /\ Len(outbound[r]) < 2
       THEN /\ outbound' = [outbound EXCEPT ![r] = Append(@, outbound[r][1])]
            /\ upstream' = [upstream EXCEPT ![r] = None]
            /\ pc' = [pc EXCEPT ![r] = "blocked"]
            /\ UNCHANGED responses
       ELSE /\ responses' = [responses EXCEPT ![r] = Append(@, AfterPost(upstream[r]))]
            /\ pc' = [pc EXCEPT ![r] = "done"]
            /\ UNCHANGED <<outbound, upstream>>
    /\ UNCHANGED inbound

\* requests.post has returned or raised: the handler finishes.
Resume(r) ==
    /\ pc[r] = "resumed"
    /\ responses' = [responses EXCEPT ![r] = Append(@, AfterPost(upstream[r]))]
    /\ pc' = [pc EXCEPT ![r] = "done"]
    /\ UNCHANGED <<inbound, outbound, upstream>>

Next ==
    \E r \in Requests :
        \/ Handle(r)
        \/ UpstreamResponds(r)
        \/ TransportFails(r)
        \/ Resume(r)

Spec == Init /\ [][Next]_vars

\* The relay does not stop while something can happen: the runtime keeps
\* running a handler that can take a step, and an outbound call that is in
\* flight eventually ends, with a response or with an exception.
FairSpec == Spec /\ WF_vars(Next)

-----------------------------------------------------------------------------
(* Vocabulary of the properties *)

\* Request r has arrived: its handler has returned or called requests.post.
Handled(r) == pc[r] # "idle"

\* The outbound call of r has ended, with a response or with an exception.
Answered(r) == upstream[r] # None

IsJsonBody(r) == inbound[r] # None /\ inbound[r].fmt # "not-json"

IsObjectBody(r) == IsJsonBody(r) /\ inbound[r].val.t = "obj"

Has(r, key) == key \in DOMAIN inbound[r].val.f

Field(r, key) == inbound[r].val.f[key]

\* api_key absent, null or the empty string.
MissingApiKey(r) == ~Has(r, "api_key") \/ Field(r, "api_key") \in {Null, Str("")}

\* image_data absent, null or the empty object.
MissingImageData(r) ==
    ~Has(r, "image_data") \/ Field(r, "image_data") \in {Null, EmptyObj}

\* Both top-level fields are truthy.
PassesValidation(r) ==
    IsObjectBody(r) /\ ~MissingApiKey(r) /\ ~MissingImageData(r)

\* image_data is an object that holds both mediaType and base64.
HasBothNested(r) ==
    /\ Field(r, "image_data").t = "obj"
    /\ {"mediaType", "base64"} \subseteq DOMAIN Field(r, "image_data").f

\* resp carries the JSON object {"error": m} with the given status.
IsError(resp, status, m) ==
    /\ resp.status = status
    /\ resp.body.fmt # "not-json"
    /\ resp.body.val = Obj([error |-> Str(m)])

-----------------------------------------------------------------------------
(* C1 *)

\* C1: a request whose JSON object body has api_key absent or falsy, or
\* image_data absent or falsy, makes no outbound call and is answered with
\* status 400 and body {"error": "Missing api_key or image_data"}.
C1_MissingFieldIs400 ==
    \A r \in Requests :
        (IsObjectBody(r) /\ (MissingApiKey(r) \/ MissingImageData(r))) =>
            /\ outbound[r] = <<>>
            /\ pc[r] = "done"
            /\ Len(responses[r]) = 1
            /\ IsError(responses[r][1], 400, "Missing api_key or image_data")

C1_Witness ==
    \E r \in Requests :
        /\ pc[r] = "done"
        /\ IsObjectBody(r)
        /\ ~MissingImageData(r) /\ Has(r, "api_key") /\ Field(r, "api_key") = Str("")
        /\ responses[r][1].status = 400
        /\ outbound[r] = <<>>

-----------------------------------------------------------------------------
(* C2 *)

\* C2: when the outbound call ends with an upstream response whose body is
\* JSON, the relay answers with the upstream's status code and the same JSON
\* value, whatever the status code.
C2_UpstreamPassThrough ==
    \A r \in Requests :
        (pc[r] = "done" /\ Answered(r) /\ upstream[r].ok
            /\ upstream[r].val.text.fmt # "not-json") =>
            /\ Len(responses[r]) = 1
            /\ responses[r][1].status = upstream[r].val.status
            /\ responses[r][1].body.fmt # "not-json"
            /\ responses[r][1].body.val = upstream[r].val.text.val

C2_Witness ==
    \E r \in Requests :
        /\ pc[r] = "done" /\ Answered(r) /\ upstream[r].ok
        /\ upstream[r].val.status = 401
        /\ responses[r][1].status = 401
        /\ responses[r][1].body.val = ErrDoc

-----------------------------------------------------------------------------
(* C3 *)

\* C3: when the outbound call raises (connection refused, timeout) or its
\* response body is not JSON, the relay answers 500 with {"error": m}, m the
\* message of the exception.
C3_FailureIs500 ==
    \A r \in Requests :
        (pc[r] = "done" /\ Answered(r)) =>
            /\ ~upstream[r].ok =>
                    /\ Len(responses[r]) = 1
                    /\ IsError(responses[r][1], 500, upstream[r].msg)
            /\ (upstream[r].ok /\ upstream[r].val.text.fmt = "not-json") =>
                    /\ Len(responses[r]) = 1
                    /\ IsError(responses[r][1], 500,
                               "Expecting value: line 1 column 1 (char 0)")

C3_Witness ==
    \E r \in Requests :
        /\ pc[r] = "done" /\ Answered(r) /\ ~upstream[r].ok
        /\ IsError(responses[r][1], 500, "Connection refused")

-----------------------------------------------------------------------------
(* C4 *)

\* C4: for a request with a truthy api_key k and an image_data holding
\* mediaType m and base64 b, the outbound call is the fixed request with
\* x-api-key = k, media_type = m and data = b, and depends on nothing else.
C4_OutboundShape ==
    \A r \in Requests :
        (Handled(r) /\ PassesValidation(r) /\ HasBothNested(r)) =>
            outbound[r] = <<
                [ url |-> "https://api.anthropic.com/v1/messages",
                  headers |-> ("Content-Type" :> "application/json"
                               @@ "x-api-key" :> Field(r, "api_key")
                               @@ "anthropic-version" :> "2023-06-01"),
                  json |-> [model |-> "claude-sonnet-4-5-20250929",
                            max_tokens |-> 1024,
                            messages |-> <<
                                [role |-> "user",
                                 content |-> <<
                                    [type |-> "image",
                                     source |-> [type |-> "base64",
                                                 media_type |-> Field(r, "image_data").f["mediaType"],
                                                 data |-> Field(r, "image_data").f["base64"]]],
                                    [type |-> "text", text |-> INSTRUCTION] >>] >>] ] >>

C4_Witness ==
    \E r \in Requests :
        /\ pc[r] = "blocked"
        /\ IsObjectBody(r) /\ Has(r, "api_key") /\ Has(r, "image_data")
        /\ Field(r, "api_key") = Str("sk-test")
        /\ Field(r, "image_data") = Png
        /\ Len(outbound[r]) = 1
        /\ outbound[r][1].headers["x-api-key"] = Str("sk-test")
        /\ outbound[r][1].json.messages[1].content[1].source.media_type = Str("image/png")
        /\ outbound[r][1].json.messages[1].content[1].source.data = Str("AAAA")

-----------------------------------------------------------------------------
(* C5 *)

\* C5 as stated: every request with a truthy api_key and a truthy
\* image_data causes exactly one outbound call, and no request causes more
\* than one.
C5_OneCallPerValidated ==
    \A r \in Requests :
        /\ Len(outbound[r]) <= 1
        /\ (Handled(r) /\ PassesValidation(r)) => Len(outbound[r]) = 1

\* C5 amended: no request causes more than one outbound call, whatever the
\* upstream does; a request that passes validation causes exactly one when
\* its image_data is an object holding mediaType and base64, and none when
\* it is not (building the payload raises before requests.post is called).
C5_OneCallWhenPayloadBuilds ==
    \A r \in Requests :
        /\ Len(outbound[r]) <= 1
        /\ ~Handled(r) => outbound[r] = <<>>
        /\ (Handled(r) /\ PassesValidation(r) /\ HasBothNested(r)) =>
                Len(outbound[r]) = 1
        /\ (Handled(r) /\ PassesValidation(r) /\ ~HasBothNested(r)) =>
                outbound[r] = <<>>

C5_Witness ==
    /\ \E r \in Requests :
        /\ pc[r] = "done" /\ PassesValidation(r) /\ HasBothNested(r)
        /\ Answered(r) /\ ~upstream[r].ok
        /\ Len(outbound[r]) = 1
    /\ \E r \in Requests :
        /\ pc[r] = "done" /\ PassesValidation(r) /\ ~HasBothNested(r)
        /\ outbound[r] = <<>>

-----------------------------------------------------------------------------
(* C6 *)

\* image_data is truthy but not an object of two strings mediaType and base64.
MalformedImageData(r) ==
    /\ PassesValidation(r)
    /\ \/ ~HasBothNested(r)
       \/ Field(r, "image_data").f["mediaType"].t # "str"
       \/ Field(r, "image_data").f["base64"].t # "str"

-----------------------------------------------------------------------------
(* C7 *)

\* C7: two requests with the same valid body make two outbound calls, one
\* each, with identical URL, headers and body, and each is answered from
\* its own call.
C7_RepeatMakesTwoCalls ==
    \A r1, r2 \in Requests :
        (r1 # r2 /\ inbound[r1] = inbound[r2] /\ Handled(r1) /\ Handled(r2)
            /\ PassesValidation(r1) /\ HasBothNested(r1)) =>
            /\ Len(outbound[r1]) = 1
            /\ Len(outbound[r2]) = 1
            /\ outbound[r1][1] = outbound[r2][1]
            /\ pc[r2] = "done" => Answered(r2)

C7_Witness ==
    \E r1, r2 \in Requests :
        /\ r1 # r2 /\ inbound[r1] = inbound[r2]
        /\ PassesValidation(r1) /\ HasBothNested(r1)
        /\ pc[r1] = "done" /\ pc[r2] = "done"
        /\ Len(outbound[r1]) = 1 /\ Len(outbound[r2]) = 1
        /\ responses[r1][1].status = 200 /\ responses[r2][1].status = 401

-----------------------------------------------------------------------------
(* C8 *)

\* The JSON values request r supplied: its api_key and the nested values
\* of its image_data.
Supplied(r) ==
    IF ~IsObjectBody(r) THEN {}
    ELSE (IF Has(r, "api_key") THEN {Field(r, "api_key")} ELSE {})
         \cup (IF Has(r, "image_data") /\ Field(r, "image_data").t = "obj"
               THEN {Field(r, "image_data").f[k] : k \in DOMAIN Field(r, "image_data").f}
               ELSE {})

\* The JSON values the outbound call c carries from an inbound request.
Carried(c) ==
    { c.headers["x-api-key"],
      c.json.messages[1].content[1].source.media_type,
      c.json.messages[1].content[1].source.data }

\* C8: under any interleaving the outbound call and the response of a
\* request are determined by its own body and its own outbound call's
\* outcome: two requests with equal bodies make equal calls, with equal
\* outcomes too they get equal responses, a call carries only values its own
\* request supplied, and a response differs from what another request's
\* different upstream outcome would give.
C8_RequestsAreIsolated ==
    \A r1, r2 \in Requests :
        /\ (Handled(r1) /\ Handled(r2) /\ inbound[r1] = inbound[r2]) =>
                outbound[r1] = outbound[r2]
        /\ (pc[r1] = "done" /\ pc[r2] = "done" /\ inbound[r1] = inbound[r2]
                /\ upstream[r1] = upstream[r2]) =>
                responses[r1] = responses[r2]
        /\ \A i \in 1..Len(outbound[r1]) : Carried(outbound[r1][i]) \subseteq Supplied(r1)
        /\ (pc[r1] = "done" /\ Answered(r1) /\ Answered(r2)
                /\ upstream[r1] # upstream[r2]) =>
                \A i \in 1..Len(responses[r1]) :
                    responses[r1][i] # AfterPost(upstream[r2])

C8_Witness ==
    \E r1, r2 \in Requests :
        /\ pc[r1] = "resumed" /\ pc[r2] = "blocked"
        /\ Field(r1, "api_key") = Str("sk-test")
        /\ Field(r2, "api_key") = Str("sk-other")
        /\ outbound[r1][1].headers["x-api-key"] = Str("sk-test")
        /\ outbound[r2][1].headers["x-api-key"] = Str("sk-other")

-----------------------------------------------------------------------------
(* C9 *)

\* C9: a body that is not JSON, or is a JSON value other than an object, is
\* answered 500 with {"error": <message of the exception>}, never 400, and
\* no outbound call is made for it.
C9_NonObjectBodyIs500 ==
    \A r \in Requests :
        (inbound[r] # None /\ ~IsObjectBody(r)) =>
            /\ outbound[r] = <<>>
            /\ pc[r] = "done"
            /\ Len(responses[r]) = 1
            /\ IsError(responses[r][1], 500,
                       CASE ~IsJsonBody(r) -> "400 Bad Request: The browser (or proxy) sent a request that this server could not understand."
                         [] inbound[r].val.t = "null" -> "'NoneType' object has no attribute 'get'"
                         [] inbound[r].val.t = "arr" -> "'list' object has no attribute 'get'"
                         [] inbound[r].val.t = "str" -> "'str' object has no attribute 'get'"
                         [] inbound[r].val.t = "num" -> "'int' object has no attribute 'get'")

C9_Witness ==
    /\ \E r \in Requests :
        /\ pc[r] = "done" /\ inbound[r].fmt = "not-json"
        /\ responses[r][1].status = 500 /\ outbound[r] = <<>>
    /\ \E r \in Requests :
        /\ pc[r] = "done" /\ IsJsonBody(r) /\ inbound[r].val = Arr(<<>>)
        /\ responses[r][1].status = 500 /\ outbound[r] = <<>>

-----------------------------------------------------------------------------
(* C10 *)

\* C10: if every outbound call eventually ends, every request that arrives
\* is eventually answered, exactly once (requests are finitely many and an
\* answered request stays answered, so: from some point on every request
\* that has arrived has its one response); a request that made an outbound
\* call is answered only after that call has ended; a request that fails
\* parsing or validation is answered in the step that takes it in, with no
\* outbound call; and nothing about a request changes once it is answered.
C10_EveryRequestAnsweredOnce ==
    /\ [](\A r \in Requests :
            /\ Len(responses[r]) <= 1
            /\ responses[r] # <<>> => pc[r] = "done"
            /\ (responses[r] # <<>> /\ outbound[r] # <<>>) => Answered(r))
    /\ <>[](\A r \in Requests :
            Handled(r) => (pc[r] = "done" /\ Len(responses[r]) = 1))
    /\ [][\A r \in Requests :
            /\ (pc[r] = "idle" /\ pc'[r] # "idle"
                    /\ ~(inbound'[r].fmt # "not-json" /\ inbound'[r].val.t = "obj"
                         /\ {"api_key", "image_data"} \subseteq DOMAIN inbound'[r].val.f
                         /\ inbound'[r].val.f["api_key"] \notin {Null, Str("")}
                         /\ inbound'[r].val.f["image_data"] \notin {Null, EmptyObj})) =>
                    (pc'[r] = "done" /\ Len(responses'[r]) = 1 /\ outbound'[r] = <<>>)
            /\ pc[r] = "done" =>
                    /\ pc'[r] = "done"
                    /\ responses'[r] = responses[r]
                    /\ outbound'[r] = outbound[r]
                    /\ upstream'[r] = upstream[r]]_vars

C10_Witness ==
    /\ \E r \in Requests :
        /\ pc[r] = "done" /\ Len(responses[r]) = 1 /\ Len(outbound[r]) = 1
        /\ Answered(r)
    /\ \E r \in Requests :
        /\ pc[r] = "done" /\ Len(responses[r]) = 1 /\ outbound[r] = <<>>
        /\ ~PassesValidation(r)

====
